---- MODULE Spec2Model ----
(***************************************************************************)
(* The progressive booking state model of the ticket machine: the          *)
(* validated value types (src/src/types), the per-session draft held in    *)
(* the session store (src/src/session.rs) and the request handlers         *)
(* (src/src/lib.rs).                                                       *)
(*                                                                         *)
(* The session store keeps the draft as JSON: Session::set serializes the  *)
(* value it is given and Session::get deserializes it again, returning     *)
(* None when deserialization fails.  `store` is therefore the JSON form of *)
(* the draft, and every load runs the value types' deserializers.          *)
(*                                                                         *)
(* Text that is only compared for equality (stations, class tokens) is a   *)
(* TLA+ string; text that is matched against a pattern (name, email,       *)
(* phone number) is a sequence of one-character strings; a payment token   *)
(* is a sequence of Unicode code points.  Instants are integers counting   *)
(* clock ticks, TicksPerHour ticks to the hour.                            *)
(***************************************************************************)
EXTENDS Integers, Sequences, FiniteSets, TLC

VARIABLES store, now, response, calls, client, flow, eval, tasks

vars == <<store, now, response, calls, client, flow, eval, tasks>>

(***************************************************************************)
(* Bounds of the model.                                                    *)
(***************************************************************************)
\* the clock runs from 0 to MaxNow
MaxNow == 2
\* list_trips is answered with a trip list at most MaxListCalls times
MaxListCalls == 1
\* resolution of the clock
TicksPerHour == 2
\* the instants a call on its own is given run from 0 to MaxInstant
MaxInstant == 5
\* the clock changes after at most MaxReads reads of one call
MaxReads == 3
\* requests of one session handled at the same time, step by step
MaxTasks == 2
\* requests handled step by step in one run
MaxRequests == 3

(***************************************************************************)
(* Option<T> and Result<T, E>: None / Err is the empty tuple, Some(v) /    *)
(* Ok(v) the one-element tuple.                                            *)
(***************************************************************************)
None == <<>>

Some(v) == <<v>>

(***************************************************************************)
(* Request payloads: the JSON value in the body of a request.  kind is     *)
(* "string" for a JSON string, "number" for a JSON number (which no        *)
(* value type of the program deserializes from), "instant" for a JSON      *)
(* string in RFC 3339 form and "uuid" for a JSON string in UUID form.      *)
(***************************************************************************)
Payload(k, v) == [kind |-> k, val |-> v]

NoPayload == Payload("none", 0)

(***************************************************************************)
(* src/src/types/location.rs                                               *)
(***************************************************************************)
VALID_LOCATIONS == {"Amsterdam Centraal", "Paris Nord", "Berlin Hbf", "London Waterloo"}

\* is_valid_location with the slip of comparing without regard to case
is_valid_location_caseless(location) ==
    location \in VALID_LOCATIONS \cup {"amsterdam centraal", "AMSTERDAM CENTRAAL"}

is_valid_location(location) == location \in VALID_LOCATIONS

\* TryFrom<String> for Location
LocationTryFrom(s) == IF ~is_valid_location(s) THEN None ELSE Some(s)

\* #[serde(try_from = "String")]: a JSON string, then try_from
DeserializeLocation(p) == IF p.kind = "string" THEN LocationTryFrom(p.val) ELSE None

\* derived Serialize of the newtype: the wrapped string
SerializeLocation(l) == Payload("string", l)

(***************************************************************************)
(* src/src/types/customer_details.rs                                       *)
(***************************************************************************)
LowerCase == {"a", "b", "c", "d", "e", "f", "g", "h", "i", "j", "k", "l", "m",
              "n", "o", "p", "q", "r", "s", "t", "u", "v", "w", "x", "y", "z"}

UpperCase == {"A", "B", "C", "D", "E", "F", "G", "H", "I", "J", "K", "L", "M",
              "N", "O", "P", "Q", "R", "S", "T", "U", "V", "W", "X", "Y", "Z"}

Digit == {"0", "1", "2", "3", "4", "5", "6", "7", "8", "9"}

\* NAME_REGEX, "^[a-z]$": exactly one lower-case letter
NAME_REGEX(s) == Len(s) = 1 /\ s[1] \in LowerCase

\* TryFrom<String> for Name
NameTryFrom(s) == IF ~NAME_REGEX(s) THEN None ELSE Some(s)

\* Name derives Deserialize with no try_from attribute: any JSON string
\* becomes a Name, NameTryFrom is not called
DeserializeName(p) == IF p.kind = "string" THEN Some(p.val) ELSE None

SerializeName(n) == Payload("string", n)

\* #[validate(email)]: the text splits at its last "@" into a user part of
\* allowed characters (the backquote, which the validator also allows, is
\* left out: no input of the model holds one) and a domain of dot-separated
\* labels of letters, digits and inner hyphens
EmailUserChar == LowerCase \cup UpperCase \cup Digit \cup {".", "!", "#", "$", "%", "&", "'", "*", "+", "/", "=", "?", "^", "_", "{", "|", "}", "~", "-"}

EmailUserOk(u) == Len(u) >= 1 /\ Len(u) <= 64 /\ \A i \in 1..Len(u) : u[i] \in EmailUserChar

AlphaNum == LowerCase \cup UpperCase \cup Digit

EmailDomainOk(d) ==
    /\ Len(d) >= 1 /\ Len(d) <= 255
    /\ \A i \in 1..Len(d) : d[i] \in AlphaNum \cup {"-", "."}
    /\ d[1] \in AlphaNum /\ d[Len(d)] \in AlphaNum
    /\ \A i \in 1..Len(d) : d[i] = "." => (d[i-1] \in AlphaNum /\ d[i+1] \in AlphaNum)

ValidateEmail(s) ==
    \E i \in 1..Len(s) :
        /\ s[i] = "@"
        /\ \A j \in (i+1)..Len(s) : s[j] # "@"
        /\ EmailUserOk(SubSeq(s, 1, i-1))
        /\ EmailDomainOk(SubSeq(s, i+1, Len(s)))

\* TryFrom<String> for Email
EmailTryFrom(email) == IF ValidateEmail(email) THEN Some(email) ELSE None

\* #[serde(try_from = "String", into = "String")]
DeserializeEmail(p) == IF p.kind = "string" THEN EmailTryFrom(p.val) ELSE None

SerializeEmail(e) == Payload("string", e)

\* #[nutype(validate(regex = "^[0-9]{3}-[0-9]{3}$"))]
PhoneNumberRegex(s) ==
    /\ Len(s) = 7
    /\ \A i \in {1, 2, 3, 5, 6, 7} : s[i] \in Digit
    /\ s[4] = "-"

PhoneNumberTryNew(s) == IF PhoneNumberRegex(s) THEN Some(s) ELSE None

\* nutype's derived Deserialize goes through try_new
DeserializePhoneNumber(p) == IF p.kind = "string" THEN PhoneNumberTryNew(p.val) ELSE None

SerializePhoneNumber(n) == Payload("string", n)

(***************************************************************************)
(* src/src/types/class.rs: the variants First and Second, "first" and      *)
(* "second" on the wire.                                                   *)
(***************************************************************************)
DeserializeClass(p) ==
    IF p.kind # "string" THEN None
    ELSE IF p.val = "first" THEN Some("First")
    ELSE IF p.val = "second" THEN Some("Second")
    ELSE None

SerializeClass(c) == Payload("string", IF c = "First" THEN "first" ELSE "second")

(***************************************************************************)
(* src/src/types/departure_or_arrival.rs                                   *)
(***************************************************************************)
\* TryFrom<DateTime<Utc>> for FutureTimestamp; clock is the value Utc::now()
\* returns
FutureTimestampTryFrom(dt, clock) == IF clock > dt THEN None ELSE Some(dt)

\* #[serde(try_from = "DateTime<Utc>")]
DeserializeFutureTimestamp(p, clock) ==
    IF p.kind = "instant" THEN FutureTimestampTryFrom(p.val, clock) ELSE None

\* derived Serialize of the newtype: the wrapped DateTime, in RFC 3339 with
\* its full precision
SerializeFutureTimestamp(t) == Payload("instant", t)

\* the variants of DepartureOrArrival, each wrapping a FutureTimestamp
Departure(t) == [tag |-> "Departure", at |-> t]

Arrival(t) == [tag |-> "Arrival", at |-> t]

\* derived (externally tagged) Serialize / Deserialize of DepartureOrArrival
SerializeDepartureOrArrival(d) == [tag |-> d.tag, at |-> SerializeFutureTimestamp(d.at)]

DeserializeDepartureOrArrival(j, clock) ==
    LET t == DeserializeFutureTimestamp(j.at, clock)
    IN  IF t = None THEN None ELSE Some([tag |-> j.tag, at |-> t[1]])

(***************************************************************************)
(* src/src/types/payment_info.rs                                           *)
(***************************************************************************)
\* the text "<SECRET>", as code points
SECRET == <<60, 83, 69, 67, 82, 69, 84, 62>>

\* Display with the slip of writing the wrapped token
DisplayPaymentInfo_leaking(p) == p

\* impl Display for PaymentInfo
DisplayPaymentInfo(p) == SECRET

\* impl Debug for PaymentInfo: PaymentInfo("<SECRET>")
DebugPaymentInfo(p) == [tuple |-> "PaymentInfo", field |-> SECRET]

\* impl From<PaymentInfo> for String: p.to_string()
PaymentInfoIntoString(p) == DisplayPaymentInfo(p)

\* #[serde(into = "String")]
SerializePaymentInfo(p) == Payload("string", PaymentInfoIntoString(p))

\* derived Deserialize of the newtype: any JSON string
DeserializePaymentInfo(p) == IF p.kind = "string" THEN Some(p.val) ELSE None

(***************************************************************************)
(* src/src/types/trip.rs                                                   *)
(***************************************************************************)
\* TripId(Uuid): derived Deserialize, any text in UUID form
DeserializeTripId(p) == IF p.kind = "uuid" THEN Some(p.val) ELSE None

SerializeTripId(id) == Payload("uuid", id)

\* Uuid::new_v4() for candidate i of the call-th trip listing: a value no
\* other candidate of any listing gets
NewUuid(call, i) == [call |-> call, seq |-> i]

\* a well-formed UUID that no listing generated
ForgedUuid == [call |-> 0, seq |-> 0]

\* the cap of take(10)
MaxTrips == 10

\* the journey of every generated trip, in hours
JourneyHours == 2

Hours(n) == n * TicksPerHour

\* the value Utc::now() returns when candidate i is filtered: clocks lists
\* the values it returns to the first candidates, the last of them is what
\* it returns from then on
ClockAt(clocks, i) == clocks[IF i + 1 <= Len(clocks) THEN i + 1 ELSE Len(clocks)]

\* Anchor with the slip of taking the requested arrival as a departure
Anchor_arrival(time) == time.at

\* the departure of the first candidate: the requested departure, or two
\* hours before the requested arrival
Anchor(time) ==
    IF time.tag = "Departure"
    THEN time.at
    ELSE time.at + Hours(0 - JourneyHours)

\* Candidate with the slip of exchanging origin and destination
Candidate_swapped(origin, destiniation, time, call, i) ==
    [id          |-> NewUuid(call, i),
     origin      |-> destiniation,
     destination |-> origin,
     departure   |-> Anchor(time) + Hours(i),
     arrival     |-> (Anchor(time) + Hours(JourneyHours)) + Hours(i)]

\* Candidate with the slip of leaving the arrival of every candidate at the
\* arrival of the first
Candidate_unshifted(origin, destiniation, time, call, i) ==
    [id          |-> NewUuid(call, i),
     origin      |-> origin,
     destination |-> destiniation,
     departure   |-> Anchor(time) + Hours(i),
     arrival     |-> Anchor(time) + Hours(JourneyHours)]

\* the i-th trip of repeat_with(..).enumerate().map(..): it departs i hours
\* after the anchor and arrives JourneyHours later
Candidate(origin, destiniation, time, call, i) ==
    [id          |-> NewUuid(call, i),
     origin      |-> origin,
     destination |-> destiniation,
     departure   |-> Anchor(time) + Hours(i),
     arrival     |-> (Anchor(time) + Hours(JourneyHours)) + Hours(i)]

\* the filter with the slip of keeping a trip that departs at the clock
Keeps_present(clock, t) == clock <= t.departure

\* the closure of filter: |t| Utc::now() < t.departure
Keeps(clock, t) == clock < t.departure

\* take with the slip of yielding one trip more
Full_late(taken) == Len(taken) = MaxTrips + 1

\* take(MaxTrips) has yielded all it yields
Full(taken) == Len(taken) = MaxTrips

\* Trip::list_matching: the candidates in the order of i, those the filter
\* keeps, the first MaxTrips of them.  clocks are the values Utc::now()
\* returns to the filter, see ClockAt.
list_matching(origin, destiniation, time, clocks, call) ==
    LET RECURSIVE Collect(_, _)
        Collect(i, taken) ==
            IF Full(taken) THEN taken
            ELSE LET t == Candidate(origin, destiniation, time, call, i)
                 IN  IF Keeps(ClockAt(clocks, i), t)
                     THEN Collect(i + 1, Append(taken, t))
                     ELSE Collect(i + 1, taken)
    IN  Collect(0, <<>>)

\* derived Serialize of Trip, field by field
SerializeTrip(t) == [id          |-> SerializeTripId(t.id),
                     origin      |-> SerializeLocation(t.origin),
                     destination |-> SerializeLocation(t.destination),
                     departure   |-> Payload("instant", t.departure),
                     arrival     |-> Payload("instant", t.arrival)]

SerializeTrips(ts) == [i \in 1..Len(ts) |-> SerializeTrip(ts[i])]

(***************************************************************************)
(* src/src/types/ticket_machine.rs                                         *)
(***************************************************************************)
\* the fields of TicketMachine, in the order of the booking flow
Slots == <<"origin", "destination", "time", "trip", "class", "name", "email",
           "phone_number", "payment_info">>

\* TicketMachine::default(): every field None
TicketMachineDefault == [f \in {Slots[i] : i \in 1..Len(Slots)} |-> None]

\* TicketMachine::book
book(t) == "Ok"

\* derived Debug of TicketMachine: every field by its type's Debug, which
\* shows the field's content for every type but PaymentInfo
DebugTicketMachine(s) ==
    [f \in DOMAIN s |->
        IF f = "payment_info" /\ s[f] # None
        THEN Some(DebugPaymentInfo(s[f][1]))
        ELSE s[f]]

\* derived Serialize of TicketMachine: the JSON object the session keeps and
\* the handlers answer with
SerializeTicketMachine(s) ==
    LET \* Serialize of Option<T>: null for None
        SerializeOption(Ser(_), o) == IF o = None THEN None ELSE Some(Ser(o[1]))
    IN
    [origin       |-> SerializeOption(SerializeLocation, s.origin),
     destination  |-> SerializeOption(SerializeLocation, s.destination),
     time         |-> SerializeOption(SerializeDepartureOrArrival, s.time),
     trip         |-> SerializeOption(SerializeTripId, s.trip),
     class        |-> SerializeOption(SerializeClass, s.class),
     name         |-> SerializeOption(SerializeName, s.name),
     email        |-> SerializeOption(SerializeEmail, s.email),
     phone_number |-> SerializeOption(SerializePhoneNumber, s.phone_number),
     payment_info |-> SerializeOption(SerializePaymentInfo, s.payment_info)]

\* derived Deserialize of TicketMachine: every field through its type's
\* deserializer, an error in any field failing the whole
DeserializeTicketMachine(j, clock) ==
    LET \* Deserialize of Option<T>: Ok(None) for null, Ok(Some(v)) when the
        \* value deserializes, Err otherwise
        DeserializeOption(De(_), jo) ==
            IF jo = None THEN Some(None)
            ELSE IF De(jo[1]) = None THEN None
            ELSE Some(De(jo[1]))
        DeTime(x) == DeserializeDepartureOrArrival(x, clock)
        s == [origin       |-> DeserializeOption(DeserializeLocation, j.origin),
              destination  |-> DeserializeOption(DeserializeLocation, j.destination),
              time         |-> DeserializeOption(DeTime, j.time),
              trip         |-> DeserializeOption(DeserializeTripId, j.trip),
              class        |-> DeserializeOption(DeserializeClass, j.class),
              name         |-> DeserializeOption(DeserializeName, j.name),
              email        |-> DeserializeOption(DeserializeEmail, j.email),
              phone_number |-> DeserializeOption(DeserializePhoneNumber, j.phone_number),
              payment_info |-> DeserializeOption(DeserializePaymentInfo, j.payment_info)]
    IN  IF \E f \in DOMAIN s : s[f] = None THEN None
        ELSE Some([f \in DOMAIN s |-> s[f][1]])

(***************************************************************************)
(* src/src/session.rs.  st is the session's entry for SESSION_STATE_KEY:   *)
(* None when the key is absent, Some(json) otherwise.                      *)
(***************************************************************************)
\* Session::set(SESSION_STATE_KEY, s)
SessionSet(s) == Some(SerializeTicketMachine(s))

\* try_get_state with the slip of yielding the default draft for an absent key
try_get_state_defaulting(st, clock) ==
    IF st = None THEN Some(TicketMachineDefault)
    ELSE DeserializeTicketMachine(st[1], clock)

\* self.get(SESSION_STATE_KEY): None when the key is absent or its value
\* does not deserialize
try_get_state(st, clock) ==
    IF st = None THEN None ELSE DeserializeTicketMachine(st[1], clock)

\* update_state with the slip of creating the draft it did not find
update_state_creating(st, slot, v, clock1, clock2) ==
    LET loaded == try_get_state(st, clock1)
        s == [(IF loaded = None THEN TicketMachineDefault ELSE loaded[1])
                  EXCEPT ![slot] = Some(v)]
        stored == SessionSet(s)
    IN  [store |-> stored, ret |-> loaded, panicked |-> FALSE]

\* update_state with the slip of returning the changed draft unsaved
update_state_unsaved(st, slot, v, clock1, clock2) ==
    LET loaded == try_get_state(st, clock1)
    IN  IF loaded = None
        THEN [store |-> st, ret |-> None, panicked |-> FALSE]
        ELSE [store |-> st, ret |-> Some([loaded[1] EXCEPT ![slot] = Some(v)]),
              panicked |-> FALSE]

\* f is the closure |s| s.slot = Some(v); clock1 and clock2 are the clock
\* when the state is loaded and when it is read back.  ret is the returned
\* Option, panicked tells that the unwrap of the read-back failed.
update_state(st, slot, v, clock1, clock2) ==
    LET loaded == try_get_state(st, clock1)
    IN  IF loaded = None
        THEN [store |-> st, ret |-> None, panicked |-> FALSE]
        ELSE LET s == [loaded[1] EXCEPT ![slot] = Some(v)]
                 stored == SessionSet(s)
                 back == try_get_state(stored, clock2)
             IN  [store |-> stored, ret |-> back, panicked |-> back = None]

get_or_init_state(st, slot, v, clock1, clock2, clock3) ==
    LET initialised == IF try_get_state(st, clock1) = None
                       THEN SessionSet(TicketMachineDefault)
                       ELSE st
        updated == update_state(initialised, slot, v, clock2, clock3)
    IN  [store |-> updated.store, ret |-> updated.ret,
         panicked |-> updated.ret = None]

(***************************************************************************)
(* Requests.  The bodies a client sends: for every value type at least one *)
(* its deserializer accepts and one it refuses.  Two clients are explored: *)
(* the "orderly" one asks for the first empty slot of the draft it was     *)
(* last shown (or for the origin, or for the trip list), with every body   *)
(* below, while the clock runs; the "erratic" one asks for any slot at any *)
(* moment, with one acceptable body for each, at a single instant.         *)
(***************************************************************************)
Text(s) == Payload("string", s)

Orderly == client = "orderly"

OriginInputs ==
    IF Orderly
    THEN {Text("Amsterdam Centraal"), Text("Paris Nord"), Text("Amsterdam")}
    ELSE {Text("Amsterdam Centraal")}

DestinationInputs ==
    IF Orderly
    THEN {Text("London Waterloo"), Text("amsterdam centraal")}
    ELSE {Text("London Waterloo")}

Instants(ts) == {Payload("instant", t) : t \in {x \in ts : x >= 0}}

\* an instant one tick in the past, the present instant, one tick ahead
DepartureInputs == IF Orderly THEN Instants({now - 1, now, now + 1}) ELSE Instants({now + 1})

ArrivalInputs == IF Orderly THEN Instants({now - 1, now + 1}) ELSE Instants({now + 1})

\* the first identifier of the trip list the client holds, an identifier it
\* made up, and text that is no UUID
TripIdInputs ==
    (IF response.trips # <<>> THEN {response.trips[1].id} ELSE {})
        \cup (IF Orderly THEN {Payload("uuid", ForgedUuid), Text("not-a-uuid")}
              ELSE {Payload("uuid", ForgedUuid)})

ClassInputs ==
    IF Orderly THEN {Text("first"), Text("third")} ELSE {Text("second"), Text("third")}

NameInputs ==
    IF Orderly
    THEN {Text(<<"h">>), Text(<<"H", "e", "n", "k">>), Payload("number", 42)}
    ELSE {Text(<<"h">>)}

EmailInputs ==
    IF Orderly
    THEN {Text(<<"a", "@", "b", ".", "c">>), Text(<<"a", "b", ".", "c">>)}
    ELSE {Text(<<"a", "@", "b", ".", "c">>)}

PhoneNumberInputs ==
    IF Orderly
    THEN {Text(<<"1", "2", "3", "-", "4", "5", "6">>),
          Text(<<"0", "6", "1", "2", "3", "4", "5", "6", "7", "8">>)}
    ELSE {Text(<<"1", "2", "3", "-", "4", "5", "6">>)}

\* "1234" and three money-bag emoji (U+1F4B0), and a JSON number
PaymentInfoInputs ==
    IF Orderly
    THEN {Text(<<49, 50, 51, 52>>), Text(<<128176, 128176, 128176>>),
          Payload("number", 42)}
    ELSE {Text(<<49, 50, 51, 52>>)}

\* position of a slot in the order of the flow
SlotIndex(slot) == CHOOSE i \in 1..Len(Slots) : Slots[i] = slot

\* slot is populated in the JSON draft st
Populated(st, slot) == st # None /\ st[1][slot] # None

\* the client asks for slot: the orderly one only for the first empty slot
Asks(slot) ==
    \/ ~Orderly
    \/ /\ ~Populated(store, slot)
       /\ Populated(store, Slots[SlotIndex(slot) - 1])

(***************************************************************************)
(* The end-to-end scenario of tests/main.rs, complete_flow: ten requests   *)
(* in this order, each with a value its type's constructor accepts, the    *)
(* time one tick ahead of the clock and the trip one of the listed ones.   *)
(* flow counts the requests of the scenario the session has made so far,   *)
(* when they are all it has made; it is OffFlow once the session has made  *)
(* any other request.                                                      *)
(***************************************************************************)
FlowOps == <<{"set_origin"}, {"set_destination"}, {"set_departure", "set_arrival"},
             {"list_trips"}, {"set_trip"}, {"set_class"}, {"set_name"},
             {"set_email"}, {"set_phone_number"}, {"book_trip"}>>

OffFlow == 0 - 1

\* the value the scenario sends with op
FlowValue(op, arg) ==
    CASE op \in {"set_origin", "set_destination"} -> DeserializeLocation(arg) # None
      [] op \in {"set_departure", "set_arrival"} ->
             arg.kind = "instant" /\ arg.val = now + 1
      [] op = "list_trips" -> TRUE
      [] op = "set_trip" ->
             \E i \in 1..Len(response.trips) : response.trips[i].id = arg
      [] op = "set_class" -> DeserializeClass(arg) # None
      [] op = "set_name" -> arg.kind = "string" /\ NameTryFrom(arg.val) # None
      [] op = "set_email" -> DeserializeEmail(arg) # None
      [] op = "set_phone_number" -> DeserializePhoneNumber(arg) # None
      [] op = "book_trip" -> DeserializePaymentInfo(arg) # None

NextFlow(op, arg) ==
    IF flow >= 0 /\ flow < Len(FlowOps) /\ op \in FlowOps[flow + 1] /\ FlowValue(op, arg)
    THEN flow + 1
    ELSE OffFlow

(***************************************************************************)
(* src/src/lib.rs: the handlers.  response is what the last request was    *)
(* answered with: "ok" with the draft or the trip list as JSON,            *)
(* "bad_request" for Error::BadRequest(msg), "rejected" when the Json      *)
(* extractor refused the body, "panic" when the handler panicked.  A       *)
(* handler reads the clock once, as now; the operators it uses take the    *)
(* clock of each of their reads.                                           *)
(***************************************************************************)
Respond(op, arg, status, msg, body, trips) ==
    [op |-> op, arg |-> arg, status |-> status, msg |-> msg, body |-> body,
     trips |-> trips]

\* Json<T> failed to deserialize the body: the handler does not run
Rejected(op, arg) ==
    /\ response' = Respond(op, arg, "rejected", "", None, <<>>)
    /\ flow' = NextFlow(op, arg)
    /\ UNCHANGED <<store, now, calls, client, eval, tasks>>

\* the answer to what update_state or get_or_init_state returned
Answer(op, arg, updated, msg) ==
    /\ store' = updated.store
    /\ response' =
           IF updated.panicked THEN Respond(op, arg, "panic", "", None, <<>>)
           ELSE IF updated.ret = None
                THEN Respond(op, arg, "bad_request", msg, None, <<>>)
           ELSE Respond(op, arg, "ok", "",
                        Some(SerializeTicketMachine(updated.ret[1])), <<>>)
    /\ flow' = NextFlow(op, arg)
    /\ UNCHANGED <<now, calls, client, eval, tasks>>

set_origin ==
    \E arg \in OriginInputs :
        LET origin == DeserializeLocation(arg)
        IN  IF origin = None THEN Rejected("set_origin", arg)
            ELSE Answer("set_origin", arg,
                        get_or_init_state(store, "origin", origin[1], now, now, now),
                        "")

set_destination ==
    \E arg \in DestinationInputs :
        LET destination == DeserializeLocation(arg)
        IN  /\ Asks("destination")
            /\ IF destination = None THEN Rejected("set_destination", arg)
               ELSE Answer("set_destination", arg,
                           update_state(store, "destination", destination[1], now, now),
                           "Set origin first")

set_departure ==
    \E arg \in DepartureInputs :
        LET departure == DeserializeFutureTimestamp(arg, now)
        IN  /\ Asks("time")
            /\ IF departure = None THEN Rejected("set_departure", arg)
               ELSE Answer("set_departure", arg,
                           update_state(store, "time", Departure(departure[1]), now, now),
                           "Set destination first")

set_arrival ==
    \E arg \in ArrivalInputs :
        LET arrival == DeserializeFutureTimestamp(arg, now)
        IN  /\ Asks("time")
            /\ IF arrival = None THEN Rejected("set_arrival", arg)
               ELSE Answer("set_arrival", arg,
                           update_state(store, "time", Arrival(arrival[1]), now, now),
                           "Set destination first")

\* list_trips with the slip of initialising the draft it did not find
list_trips_initialising ==
    LET state == try_get_state(store, now)
        complete == /\ state # None
                    /\ state[1].origin # None
                    /\ state[1].destination # None
                    /\ state[1].time # None
    IN  /\ complete => calls < MaxListCalls
        /\ response' =
               IF state = None
               THEN Respond("list_trips", NoPayload, "bad_request",
                            "Set trip details first", None, <<>>)
               ELSE IF ~complete
               THEN Respond("list_trips", NoPayload, "bad_request",
                            "Trip details incomplete", None, <<>>)
               ELSE Respond("list_trips", NoPayload, "ok", "", None,
                            SerializeTrips(list_matching(state[1].origin[1],
                                state[1].destination[1], state[1].time[1],
                                <<now>>, calls + 1)))
        /\ calls' = IF complete THEN calls + 1 ELSE calls
        /\ flow' = NextFlow("list_trips", NoPayload)
        /\ store' = IF state = None THEN SessionSet(TicketMachineDefault) ELSE store
        /\ UNCHANGED <<now, client, eval, tasks>>

list_trips ==
    LET state == try_get_state(store, now)
        complete == /\ state # None
                    /\ state[1].origin # None
                    /\ state[1].destination # None
                    /\ state[1].time # None
    IN  /\ complete => calls < MaxListCalls
        /\ response' =
               IF state = None
               THEN Respond("list_trips", NoPayload, "bad_request",
                            "Set trip details first", None, <<>>)
               ELSE IF ~complete
               THEN Respond("list_trips", NoPayload, "bad_request",
                            "Trip details incomplete", None, <<>>)
               ELSE Respond("list_trips", NoPayload, "ok", "", None,
                            SerializeTrips(list_matching(state[1].origin[1],
                                state[1].destination[1], state[1].time[1],
                                <<now>>, calls + 1)))
        /\ calls' = IF complete THEN calls + 1 ELSE calls
        /\ flow' = NextFlow("list_trips", NoPayload)
        /\ UNCHANGED <<store, now, client, eval, tasks>>

set_trip ==
    \E arg \in TripIdInputs :
        LET trip_id == DeserializeTripId(arg)
        IN  /\ Asks("trip")
            /\ IF trip_id = None THEN Rejected("set_trip", arg)
               ELSE Answer("set_trip", arg,
                           update_state(store, "trip", trip_id[1], now, now),
                           "Set departure or arrival time first")

set_class ==
    \E arg \in ClassInputs :
        LET class == DeserializeClass(arg)
        IN  /\ Asks("class")
            /\ IF class = None THEN Rejected("set_class", arg)
               ELSE Answer("set_class", arg,
                           update_state(store, "class", class[1], now, now),
                           "Select a trip first")

set_name ==
    \E arg \in NameInputs :
        LET name == DeserializeName(arg)
        IN  /\ Asks("name")
            /\ IF name = None THEN Rejected("set_name", arg)
               ELSE Answer("set_name", arg,
                           update_state(store, "name", name[1], now, now),
                           "Set class first")

set_email ==
    \E arg \in EmailInputs :
        LET email == DeserializeEmail(arg)
        IN  /\ Asks("email")
            /\ IF email = None THEN Rejected("set_email", arg)
               ELSE Answer("set_email", arg,
                           update_state(store, "email", email[1], now, now),
                           "Set name first")

set_phone_number ==
    \E arg \in PhoneNumberInputs :
        LET phone_number == DeserializePhoneNumber(arg)
        IN  /\ Asks("phone_number")
            /\ IF phone_number = None THEN Rejected("set_phone_number", arg)
               ELSE Answer("set_phone_number", arg,
                           update_state(store, "phone_number", phone_number[1], now, now),
                           "Set email first")

\* update_state has persisted the draft when t.book() is called on the draft
\* it returned; an Err of t.book() is answered in place of the draft
book_trip ==
    \E arg \in PaymentInfoInputs :
        LET payment_info == DeserializePaymentInfo(arg)
        IN  /\ Asks("payment_info")
            /\ IF payment_info = None THEN Rejected("book_trip", arg)
               ELSE LET updated == update_state(store, "payment_info",
                                                payment_info[1], now, now)
                    IN  IF /\ ~updated.panicked
                           /\ updated.ret # None
                           /\ book(updated.ret[1]) # "Ok"
                        THEN /\ store' = updated.store
                             /\ response' = Respond("book_trip", arg, "error",
                                                    book(updated.ret[1]), None, <<>>)
                             /\ flow' = NextFlow("book_trip", arg)
                             /\ UNCHANGED <<now, calls, client, eval, tasks>>
                        ELSE Answer("book_trip", arg, updated, "Set phone_number first")

\* time passes between two requests
Tick ==
    /\ Orderly
    /\ now < MaxNow
    /\ now' = now + 1
    /\ UNCHANGED <<store, response, calls, client, flow, eval, tasks>>

\* no call of a constructor or of the trip catalog on its own is under way
NoCall == [fn |-> "none", done |-> TRUE]

\* no request is being handled step by step
NoTasks == <<>>

Init ==
    /\ store = None
    /\ now = 0
    /\ calls = 0
    /\ response = Respond("none", NoPayload, "none", "", None, <<>>)
    /\ client \in {"orderly", "erratic"}
    /\ flow = 0
    /\ eval = NoCall
    /\ tasks = NoTasks

Next ==
    \/ set_origin
    \/ set_destination
    \/ set_departure
    \/ set_arrival
    \/ list_trips
    \/ set_trip
    \/ set_class
    \/ set_name
    \/ set_email
    \/ set_phone_number
    \/ book_trip
    \/ Tick

Spec == Init /\ [][Next]_vars

(***************************************************************************)
(* The constructors of the value types and the trip catalog, called on     *)
(* their own.  eval is the call under way: its arguments, what it has      *)
(* computed so far, and whether it has returned.  A call of list_matching  *)
(* advances one pull of its iterator chain at a time; it lasts far less    *)
(* than a tick, so the clock it reads changes at most once, by one tick.   *)
(***************************************************************************)
\* the strings Location::try_from is called with: the allow-list, and texts
\* that differ from an entry in case, in white space or in length
LocationTexts ==
    VALID_LOCATIONS \cup {"amsterdam centraal", "AMSTERDAM CENTRAAL",
                          " Amsterdam Centraal", "Amsterdam Centraal ",
                          "Amsterdam  Centraal", "Amsterdam", "Paris", ""}

LocationCalls ==
    {[fn |-> "Location", arg |-> s, made |-> None, back |-> None, done |-> FALSE] :
        s \in LocationTexts}

\* the values Utc::now() returns during one call that starts at clock c: c
\* throughout, or c for the first k reads and c + 1 from then on
ClocksFrom(c) ==
    {<<c>>} \cup {[j \in 1..(k + 1) |-> IF j <= k THEN c ELSE c + 1] : k \in 1..MaxReads}

ListCalls ==
    {[fn |-> "list_matching", origin |-> o, destination |-> d, time |-> t,
      clocks |-> cs, call |-> 1, i |-> 0, taken |-> <<>>, done |-> FALSE] :
        o \in {"Amsterdam Centraal", "London Waterloo"},
        d \in {"Amsterdam Centraal", "London Waterloo"},
        t \in {Departure(x) : x \in 0..MaxInstant} \cup {Arrival(x) : x \in 0..MaxInstant},
        cs \in UNION {ClocksFrom(c) : c \in 0..MaxInstant}}

\* Location::try_from(arg), then the Location it made through Serialize and
\* Deserialize
ConstructLocation ==
    /\ eval.fn = "Location"
    /\ ~eval.done
    /\ LET made == LocationTryFrom(eval.arg)
           back == IF made = None THEN None
                   ELSE DeserializeLocation(SerializeLocation(made[1]))
       IN  eval' = [eval EXCEPT !.made = made, !.back = back, !.done = TRUE]
    /\ UNCHANGED <<store, now, response, calls, client, flow, tasks>>

\* one pull of collect() on the chain of list_matching: take yields nothing
\* more once it has yielded MaxTrips trips; otherwise the next candidate is
\* made and the filter keeps or drops it
Pull ==
    /\ eval.fn = "list_matching"
    /\ ~eval.done
    /\ eval' =
           IF Full(eval.taken) THEN [eval EXCEPT !.done = TRUE]
           ELSE LET t == Candidate(eval.origin, eval.destination, eval.time,
                                   eval.call, eval.i)
                IN  IF Keeps(ClockAt(eval.clocks, eval.i), t)
                    THEN [eval EXCEPT !.i = @ + 1, !.taken = Append(@, t)]
                    ELSE [eval EXCEPT !.i = @ + 1]
    /\ UNCHANGED <<store, now, response, calls, client, flow, tasks>>

CallInit ==
    /\ store = None
    /\ now = 0
    /\ calls = 0
    /\ response = Respond("none", NoPayload, "none", "", None, <<>>)
    /\ client = "orderly"
    /\ flow = 0
    /\ eval \in LocationCalls \cup ListCalls
    /\ tasks = NoTasks

CallNext ==
    \/ ConstructLocation
    \/ Pull

CallSpec == CallInit /\ [][CallNext]_vars

\* collect() keeps pulling until the chain is exhausted
CallFairSpec == CallSpec /\ WF_vars(Pull)

(***************************************************************************)
(* The handlers step by step.  The requests of one session are handled by  *)
(* MaxTasks tasks at the same time; a step of a task is one access to the  *)
(* session (Session::get or Session::set) with the code around it, and the *)
(* clock may advance between any two steps.  tasks[p] is the request task  *)
(* p handles: where it is (pc), the slot and the value of the closure it   *)
(* passes to the session, the draft it holds (s), what it answered, and    *)
(* the tasks whose present request was being handled when it arrived       *)
(* (with).                                                                 *)
(***************************************************************************)
IdleTask ==
    [pc |-> "idle", op |-> "none", slot |-> "none", val |-> 0, s |-> None,
     status |-> "none", body |-> None, trips |-> <<>>, n |-> 0, with |-> {}]

\* the tasks that are handling a request
InFlight == {q \in DOMAIN tasks : tasks[q].pc \notin {"idle", "done"}}

\* the requests a task handles: the operation, and the slot and the value of
\* its closure, made from a body its extractor accepts at the present clock
StepRequests ==
    <<[op |-> "set_origin", slot |-> "origin",
       val |-> LocationTryFrom("Amsterdam Centraal")[1]],
      [op |-> "set_departure", slot |-> "time",
       val |-> Departure(FutureTimestampTryFrom(now, now)[1])],
      [op |-> "set_departure", slot |-> "time",
       val |-> Departure(FutureTimestampTryFrom(now + 1, now)[1])],
      [op |-> "set_class", slot |-> "class", val |-> "First"],
      [op |-> "book_trip", slot |-> "payment_info", val |-> <<49, 50, 51, 52>>],
      [op |-> "list_trips", slot |-> "none", val |-> 0]>>

\* the first step of the handler of op
FirstStep(op) ==
    CASE op = "set_origin" -> "init_load"
      [] op = "list_trips" -> "list"
      [] OTHER -> "load"

\* the requests begun so far
Begun == LET RECURSIVE Sum(_)
             Sum(p) == IF p = 0 THEN 0 ELSE tasks[p].n + Sum(p - 1)
         IN  Sum(MaxTasks)

\* task p answers, or panics
Done(p, status, body, trips) ==
    tasks' = [tasks EXCEPT ![p].pc = "done", ![p].status = status,
                           ![p].body = body, ![p].trips = trips]

\* a request arrives and its body is extracted
Begin(p) ==
    /\ tasks[p].pc \in {"idle", "done"}
    /\ Begun < MaxRequests
    /\ \E r \in 1..Len(StepRequests) :
           LET req == StepRequests[r]
               mine == [IdleTask EXCEPT !.pc = FirstStep(req.op), !.op = req.op,
                                        !.slot = req.slot, !.val = req.val,
                                        !.n = tasks[p].n + 1, !.with = InFlight]
           IN  tasks' = [q \in DOMAIN tasks |->
                            IF q = p THEN mine
                            ELSE [tasks[q] EXCEPT !.with = @ \ {p}]]
    /\ UNCHANGED <<store, now, response, calls, client, flow, eval>>

\* get_or_init_state: self.try_get_state(), the closure of unwrap_or_else
\* runs when it is None
InitLoad(p) ==
    /\ tasks[p].pc = "init_load"
    /\ tasks' = [tasks EXCEPT ![p].pc =
                    IF try_get_state(store, now) = None THEN "init_set" ELSE "load"]
    /\ UNCHANGED <<store, now, response, calls, client, flow, eval>>

\* get_or_init_state: self.set(SESSION_STATE_KEY, TicketMachine::default())
InitSet(p) ==
    /\ tasks[p].pc = "init_set"
    /\ store' = SessionSet(TicketMachineDefault)
    /\ tasks' = [tasks EXCEPT ![p].pc = "init_reload"]
    /\ UNCHANGED <<now, response, calls, client, flow, eval>>

\* get_or_init_state: self.try_get_state().unwrap()
InitReload(p) ==
    /\ tasks[p].pc = "init_reload"
    /\ IF try_get_state(store, now) = None
       THEN Done(p, "panic", None, <<>>)
       ELSE tasks' = [tasks EXCEPT ![p].pc = "load"]
    /\ UNCHANGED <<store, now, response, calls, client, flow, eval>>

\* update_state: self.try_get_state().map(|mut s| { f(&mut s); ..  When it is
\* None, update_state returns None: get_or_init_state unwraps it, the other
\* handlers answer their Error::BadRequest
Load(p) ==
    /\ tasks[p].pc = "load"
    /\ LET loaded == try_get_state(store, now)
       IN  IF loaded = None
           THEN IF tasks[p].op = "set_origin"
                THEN Done(p, "panic", None, <<>>)
                ELSE Done(p, "bad_request", None, <<>>)
           ELSE tasks' = [tasks EXCEPT
                             ![p].pc = "set",
                             ![p].s = Some([loaded[1] EXCEPT
                                              ![tasks[p].slot] = Some(tasks[p].val)])]
    /\ UNCHANGED <<store, now, response, calls, client, flow, eval>>

\* update_state: self.set(SESSION_STATE_KEY, s)
Set(p) ==
    /\ tasks[p].pc = "set"
    /\ store' = SessionSet(tasks[p].s[1])
    /\ tasks' = [tasks EXCEPT ![p].pc = "reload"]
    /\ UNCHANGED <<now, response, calls, client, flow, eval>>

\* update_state: self.try_get_state().unwrap(), the draft the handler
\* answers; book_trip calls t.book() on it first
Reload(p) ==
    /\ tasks[p].pc = "reload"
    /\ LET back == try_get_state(store, now)
       IN  IF back = None THEN Done(p, "panic", None, <<>>)
           ELSE IF tasks[p].op = "book_trip"
                THEN tasks' = [tasks EXCEPT ![p].pc = "book", ![p].s = back]
           ELSE Done(p, "ok", Some(SerializeTicketMachine(back[1])), <<>>)
    /\ UNCHANGED <<store, now, response, calls, client, flow, eval>>

\* book_trip: t.book()?; Ok(t)
Book(p) ==
    /\ tasks[p].pc = "book"
    /\ IF book(tasks[p].s[1]) = "Ok"
       THEN Done(p, "ok", Some(SerializeTicketMachine(tasks[p].s[1])), <<>>)
       ELSE Done(p, "error", None, <<>>)
    /\ UNCHANGED <<store, now, response, calls, client, flow, eval>>

\* list_trips: its one access to the session and the listing
List(p) ==
    /\ tasks[p].pc = "list"
    /\ LET state == try_get_state(store, now)
           complete == /\ state # None
                       /\ state[1].origin # None
                       /\ state[1].destination # None
                       /\ state[1].time # None
       IN  /\ complete => calls < MaxListCalls
           /\ IF ~complete THEN Done(p, "bad_request", None, <<>>)
              ELSE Done(p, "ok", None,
                        SerializeTrips(list_matching(state[1].origin[1],
                            state[1].destination[1], state[1].time[1],
                            <<now>>, calls + 1)))
           /\ calls' = IF complete THEN calls + 1 ELSE calls
    /\ UNCHANGED <<store, now, response, client, flow, eval>>

\* time passes between two steps
StepTick ==
    /\ now < MaxNow
    /\ now' = now + 1
    /\ UNCHANGED <<store, response, calls, client, flow, eval, tasks>>

StepInit ==
    /\ store = None
    /\ now = 0
    /\ calls = 0
    /\ response = Respond("none", NoPayload, "none", "", None, <<>>)
    /\ client = "erratic"
    /\ flow = 0
    /\ eval = NoCall
    /\ tasks = [p \in 1..MaxTasks |-> IdleTask]

StepNext ==
    \/ \E p \in 1..MaxTasks :
           \/ Begin(p)
           \/ InitLoad(p)
           \/ InitSet(p)
           \/ InitReload(p)
           \/ Load(p)
           \/ Set(p)
           \/ Reload(p)
           \/ Book(p)
           \/ List(p)
    \/ StepTick

StepSpec == StepInit /\ [][StepNext]_vars

(***************************************************************************)
(* The claims.  A step that handles a request leaves the clock alone; the  *)
(* operations that set slot k are SetOps[k].                               *)
(***************************************************************************)
Handled == now' = now

SetOps == <<{"set_origin"}, {"set_destination"}, {"set_departure", "set_arrival"},
            {"set_trip"}, {"set_class"}, {"set_name"}, {"set_email"},
            {"set_phone_number"}, {"book_trip"}>>

AllSetOps == UNION {SetOps[k] : k \in 1..Len(SetOps)}

\* C1: a set operation on slot k issued, with a value of its type, while slot
\* k-1 is empty fails with an ordering error (Error::BadRequest), for every
\* slot k after the origin
C1_SetBeforePrerequisiteFails ==
    [][\A k \in 2..Len(Slots) :
           (/\ Handled
            /\ response'.op \in SetOps[k]
            /\ response'.status # "rejected"
            /\ ~Populated(store, Slots[k - 1]))
               => response'.status = "bad_request"]_vars

\* C2: in every persisted draft the populated slots form a prefix of the
\* fill order: a populated slot k has slot k-1 populated
C2_PopulatedSlotsFormPrefix ==
    \A k \in 2..Len(Slots) :
        Populated(store, Slots[k]) => Populated(store, Slots[k - 1])

\* C3: a request answered with an ordering error or refused for its value
\* leaves the session's entry as it was: no slot changes, no draft is created
C3_RejectedLeavesDraft ==
    [][response'.status \in {"bad_request", "rejected"} => store' = store]_vars

\* a value was refused while the session held a draft with a populated slot
C3_Witness ==
    /\ response.status = "rejected"
    /\ response.op = "set_class"
    /\ Populated(store, "trip")

\* an ordering error was answered on a session without a draft
C3_WitnessOrdering ==
    /\ response.status = "bad_request"
    /\ response.op \in AllSetOps
    /\ store = None

\* the draft the session holds as JSON, an absent one read as the all-empty
\* draft
DraftOf(st) == IF st = None THEN SerializeTicketMachine(TicketMachineDefault) ELSE st[1]

\* the number of slots the scenario has set with its first n requests (its
\* fourth request is list_trips)
FlowSlots(n) == IF n < 4 THEN n ELSE n - 1

\* what a draft shows for the value arg submitted by op
Shown(op, arg) ==
    CASE op = "set_departure" -> [tag |-> "Departure", at |-> arg]
      [] op = "set_arrival" -> [tag |-> "Arrival", at |-> arg]
      [] op = "book_trip" -> Text(SECRET)
      [] OTHER -> arg

\* C4: from a session with no draft, the n-th request of the scenario
\* (origin, destination, departure or arrival 30 minutes ahead, trip list,
\* a listed trip, class, name, email, phone number, payment; each value valid)
\* succeeds, and the draft it returns has exactly the slots set so far
\* populated, the one just set with the submitted value
C4_FlowSucceeds ==
    flow >= 1 =>
        /\ response.status = "ok"
        /\ response.op # "list_trips" =>
               /\ response.body # None
               /\ \A k \in 1..Len(Slots) :
                      response.body[1][Slots[k]] # None <=> k <= FlowSlots(flow)
               /\ response.body[1][Slots[FlowSlots(flow)]]
                      = Some(Shown(response.op, response.arg))

\* C5: set_origin with an allow-listed location answers the session's draft
\* with only origin replaced, or {origin} when the session held no draft, and
\* persists exactly that
C5_SetOriginKeepsDraft ==
    [][(/\ Handled
        /\ response'.op = "set_origin"
        /\ response'.status # "rejected")
           => /\ response'.status = "ok"
              /\ store' = Some([DraftOf(store) EXCEPT !.origin = Some(response'.arg)])
              /\ response'.body = store']_vars

\* C6: a successful set operation on slot k leaves every other slot of the
\* persisted draft as it was, in presence and in value
C6_SetChangesOnlyItsSlot ==
    [][\A k \in 1..Len(Slots) :
           (/\ Handled
            /\ response'.op \in SetOps[k]
            /\ response'.status = "ok")
               => /\ store' # None
                  /\ \A j \in (1..Len(Slots)) \ {k} :
                         store'[1][Slots[j]] = DraftOf(store)[Slots[j]]]_vars

\* C7: list_trips answers an error when the session has no draft or origin,
\* destination or time is empty in it; it answers a trip list only when all
\* three are populated, and every trip of the list has the draft's origin and
\* destination
C7_ListTripsNeedsTripDetails ==
    [][(Handled /\ response'.op = "list_trips") =>
           LET present == /\ Populated(store, "origin")
                          /\ Populated(store, "destination")
                          /\ Populated(store, "time")
           IN  /\ response'.status \in {"ok", "bad_request"}
               /\ ~present => response'.status = "bad_request"
               /\ response'.status = "bad_request" => response'.trips = <<>>
               /\ response'.status = "ok" =>
                      /\ present
                      /\ \A i \in 1..Len(response'.trips) :
                             /\ Some(response'.trips[i].origin) = store[1].origin
                             /\ Some(response'.trips[i].destination)
                                    = store[1].destination]_vars

\* a trip list was answered, with a trip in it
C7_Witness ==
    /\ response.op = "list_trips"
    /\ response.status = "ok"
    /\ response.trips # <<>>
    /\ Populated(store, "time")

\* C8: list_trips leaves the session's entry as it was, whether it answers a
\* trip list or an error, and creates no draft when the session had none
C8_ListTripsLeavesDraft ==
    [][(Handled /\ response'.op = "list_trips") => store' = store]_vars

\* list_trips answered a session that had no draft, and it still has none
C8_Witness ==
    /\ response.op = "list_trips"
    /\ response.status = "bad_request"
    /\ store = None

\* list_trips answered a trip list to a session with a draft
C8_WitnessListed ==
    /\ response.op = "list_trips"
    /\ response.status = "ok"
    /\ store # None

\* the tokens a draft is rendered with: "1234", three emoji, the empty text,
\* the placeholder itself
Tokens == {<<49, 50, 51, 52>>, <<128176, 128176, 128176>>, <<>>, SECRET}

\* C9: the draft book_trip answers shows "<SECRET>" for payment_info, and
\* with any other token in place of the submitted one the answer, the Debug
\* rendering of the draft and the Display and Debug renderings of the token
\* would have been the same
C9_PaymentIsRedacted ==
    [][(/\ Handled
        /\ response'.op = "book_trip"
        /\ response'.status = "ok")
           => LET submitted == response'.arg.val
                  mine == update_state(store, "payment_info", submitted, now, now)
                  debugged == DebugTicketMachine(mine.ret[1])
              IN  /\ response'.body[1].payment_info = Some(Text(SECRET))
                  /\ \A tok \in Tokens :
                         LET other == update_state(store, "payment_info", tok, now, now)
                         IN  /\ other.ret # None
                             /\ Some(SerializeTicketMachine(other.ret[1])) = response'.body
                             /\ DebugTicketMachine([mine.ret[1] EXCEPT
                                    !.payment_info = Some(tok)]) = debugged
                             /\ DisplayPaymentInfo(tok) = DisplayPaymentInfo(submitted)
                             /\ DisplayPaymentInfo(tok) = SECRET
                             /\ DebugPaymentInfo(tok) = DebugPaymentInfo(submitted)
                             /\ DebugPaymentInfo(tok).field = SECRET]_vars

\* book_trip answered a draft for a token of three emoji
C9_Witness ==
    /\ response.op = "book_trip"
    /\ response.status = "ok"
    /\ response.arg = Text(<<128176, 128176, 128176>>)
    /\ response.body[1].payment_info = Some(Text(SECRET))

\* C10: every populated slot of the session's draft holds a value that its
\* type's validation rule accepts: allow-listed origin and destination, a
\* name matching NAME_REGEX, a valid email address, a phone number NNN-NNN,
\* class first or second
C10_SlotsHoldValidValues ==
    store # None =>
        LET d == store[1]
            Valid(slot, Rule(_)) ==
                d[slot] # None => d[slot][1].kind = "string" /\ Rule(d[slot][1].val)
            IsClass(c) == c \in {"first", "second"}
        IN  /\ Valid("origin", is_valid_location)
            /\ Valid("destination", is_valid_location)
            /\ Valid("class", IsClass)
            /\ Valid("name", NAME_REGEX)
            /\ Valid("email", ValidateEmail)
            /\ Valid("phone_number", PhoneNumberRegex)

\* the operations whose body is a FutureTimestamp
TimeOps == {"set_departure", "set_arrival"}

\* C11: the construction of a FutureTimestamp from a timestamp t fails when
\* t is at or before the clock it is constructed at, t equal to the clock
\* included, and succeeds when t is after it
C11_PresentInstantRefused ==
    [][(/\ Handled
        /\ response'.op \in TimeOps
        /\ response'.arg.kind = "instant")
           => (response'.status = "rejected" <=> response'.arg.val <= now)]_vars

\* a call of list_matching is under way or has returned
Listing == eval.fn = "list_matching"

\* the candidate that became the k-th trip of the list
CandidateOf(k) == eval.taken[k].id.seq

\* C12: every trip list_matching has taken departs strictly after the value
\* the clock had when the filter looked at it, for every origin, destination
\* and Departure or Arrival constraint
C12_DeparturesAfterClock ==
    Listing =>
        \A k \in 1..Len(eval.taken) :
            ClockAt(eval.clocks, CandidateOf(k)) < eval.taken[k].departure

\* list_matching returned a full list after dropping a candidate, the clock
\* having changed before the first kept candidate was looked at
C12_Witness ==
    /\ Listing
    /\ eval.done
    /\ Len(eval.taken) = MaxTrips
    /\ CandidateOf(1) > 0
    /\ ClockAt(eval.clocks, CandidateOf(1)) > eval.clocks[1]

\* C13: in the list of list_matching every trip arrives exactly 2 hours after
\* it departs, and departs exactly 1 hour after the trip before it
C13_HourlyTwoHourTrips ==
    Listing =>
        /\ \A k \in 1..Len(eval.taken) :
               eval.taken[k].arrival = eval.taken[k].departure + 2 * TicksPerHour
        /\ \A k \in 2..Len(eval.taken) :
               eval.taken[k].departure = eval.taken[k - 1].departure + TicksPerHour

\* list_matching returned a list of several trips while the clock changed
C13_Witness ==
    /\ Listing
    /\ eval.done
    /\ Len(eval.taken) >= 2
    /\ Len(eval.clocks) > 1

C16_LocationAllowList ==
    (eval.fn = "Location" /\ eval.done) =>
        /\ eval.made # None <=>
               eval.arg \in {"Amsterdam Centraal", "Paris Nord", "Berlin Hbf",
                             "London Waterloo"}
        /\ eval.made # None => (eval.made = Some(eval.arg) /\ eval.back = eval.made)

\* a Location was made and came back from its serialized form
C16_Witness ==
    /\ eval.fn = "Location"
    /\ eval.done
    /\ eval.made = Some("Berlin Hbf")
    /\ eval.back = eval.made

\* Location::try_from refused a string that differs from an entry in case
C16_WitnessRefused ==
    /\ eval.fn = "Location"
    /\ eval.done
    /\ eval.arg = "amsterdam centraal"
    /\ eval.made = None

\* C15: the trip slot of the session's draft holds only an identifier that a
\* trip list answered to this session carried
C15_TripWasListed ==
    Populated(store, "trip") =>
        \E call \in 1..calls, i \in 0..(MaxTrips + JourneyHours + MaxNow) :
            store[1].trip[1] = SerializeTripId(NewUuid(call, i))

Deserializes(op, arg, clock) ==
    CASE op \in {"set_origin", "set_destination"} -> DeserializeLocation(arg) # None
      [] op \in TimeOps -> DeserializeFutureTimestamp(arg, clock) # None
      [] op = "set_trip" -> DeserializeTripId(arg) # None
      [] op = "set_class" -> DeserializeClass(arg) # None
      [] op = "set_name" -> DeserializeName(arg) # None
      [] op = "set_email" -> DeserializeEmail(arg) # None
      [] op = "set_phone_number" -> DeserializePhoneNumber(arg) # None
      [] op = "book_trip" -> DeserializePaymentInfo(arg) # None

\* C19: a set operation on slot k issued while slot k-1 is empty, with a
\* value its type refuses, fails with the ordering error (Error::BadRequest),
\* not with the refusal of the value
C19_OrderingBeforeValidation ==
    [][\A k \in 2..Len(Slots) :
           (/\ Handled
            /\ response'.op \in SetOps[k]
            /\ ~Populated(store, Slots[k - 1])
            /\ ~Deserializes(response'.op, response'.arg, now))
               => response'.status = "bad_request"]_vars

\* C20: the draft a session holds keeps loading however far the clock has
\* advanced since its time was accepted
C20_DraftKeepsLoading ==
    store # None => try_get_state(store, now) # None

\* C17: no request ends in a panic: every handler answers a draft, a trip
\* list or an error, also when the clock advances between its store and its
\* re-read of the session and when another request of the session is handled
\* at the same time
C17_NoHandlerPanics ==
    \A p \in DOMAIN tasks : tasks[p].status # "panic"

\* C21: after book_trip has stored a payment token, the draft the session
\* holds, and the draft loaded from it, hold the token that was submitted,
\* not the placeholder
C21_TokenIsPersisted ==
    [][(/\ Handled
        /\ response'.op = "book_trip"
        /\ response'.status = "ok")
           => /\ store'[1].payment_info = Some(response'.arg)
              /\ try_get_state(store', now)[1].payment_info
                     = Some(response'.arg.val)]_vars

\* C22: candidate i of list_matching departs i hours after the anchor, the
\* given time for a Departure and 2 hours before it for an Arrival; so the
\* first trip departs at the requested time when a requested departure is
\* still ahead, and arrives at the requested time when the anchor of a
\* requested arrival is still ahead
C22_CandidatesFromAnchor ==
    Listing =>
        LET anchor == IF eval.time.tag = "Departure"
                      THEN eval.time.at
                      ELSE eval.time.at - 2 * TicksPerHour
        IN  /\ \A k \in 1..Len(eval.taken) :
                   eval.taken[k].departure = anchor + CandidateOf(k) * TicksPerHour
            /\ (Len(eval.taken) >= 1 /\ eval.clocks[1] < anchor) =>
                   IF eval.time.tag = "Departure"
                   THEN eval.taken[1].departure = eval.time.at
                   ELSE eval.taken[1].arrival = eval.time.at

\* list_matching returned for a requested arrival more than two hours ahead,
\* and its first trip arrives then
C22_Witness ==
    /\ Listing
    /\ eval.done
    /\ eval.time.tag = "Arrival"
    /\ eval.clocks[1] < eval.time.at - 2 * TicksPerHour
    /\ eval.taken[1].arrival = eval.time.at
    /\ CandidateOf(1) = 0

\* C23: on a session with no draft every operation other than set_origin is
\* answered an error and the session has no draft afterwards; a draft comes
\* into existence only by set_origin
C23_OnlySetOriginCreates ==
    [][(Handled /\ store = None /\ response'.op # "set_origin") =>
           /\ response'.status \in {"bad_request", "rejected"}
           /\ store' = None]_vars

\* book_trip was answered its error on a session with no draft, which still
\* has none
C23_Witness ==
    /\ response.op = "book_trip"
    /\ response.status = "bad_request"
    /\ response.msg = "Set phone_number first"
    /\ store = None

\* the operations of StepRequests that set a slot
StepSetOps == {"set_origin", "set_departure", "set_class", "book_trip"}

\* what a draft answered or persisted shows in slot for the value val its
\* closure assigned
ShownIn(slot, val) ==
    CASE slot = "origin" -> SerializeLocation(val)
      [] slot = "time" -> SerializeDepartureOrArrival(val)
      [] slot = "class" -> SerializeClass(val)
      [] slot = "payment_info" -> SerializePaymentInfo(val)

\* C24: the draft a successful set operation answers holds, in the slot of
\* the operation, the value the operation set, also when another set
\* operation of the session stores between its store and its re-read
C24_AnswerHoldsValueSet ==
    \A p \in DOMAIN tasks :
        (tasks[p].status = "ok" /\ tasks[p].op \in StepSetOps) =>
            tasks[p].body[1][tasks[p].slot]
                = Some(ShownIn(tasks[p].slot, tasks[p].val))

\* the requests tasks p and q have answered were handled at the same time
Overlapped(p, q) == p \in tasks[q].with \/ q \in tasks[p].with

\* the operations of StepRequests that go through update_state alone
UpdateOps == {"set_departure", "set_class", "book_trip"}

\* task p has answered a draft to an operation of UpdateOps
Updated(p) == tasks[p].pc = "done" /\ tasks[p].status = "ok" /\ tasks[p].op \in UpdateOps

\* C25: when two set operations on different slots of a session are handled
\* at the same time and both succeed, the session holds afterwards what the
\* two yield one after the other: the value of each in its slot
C25_NoLostUpdate ==
    \A p, q \in DOMAIN tasks :
        (/\ p # q
         /\ Updated(p)
         /\ Updated(q)
         /\ Overlapped(p, q)
         /\ tasks[p].slot # tasks[q].slot)
            => /\ store[1][tasks[p].slot] = Some(ShownIn(tasks[p].slot, tasks[p].val))
               /\ store[1][tasks[q].slot] = Some(ShownIn(tasks[q].slot, tasks[q].val))

====
